---- MODULE Spec2Model ----
(***************************************************************************)
(* Connection-mode state machine of the industrial monitor dashboard:      *)
(*   - RealtimeMonitor (modules/dashboard/realtime-monitor.js)             *)
(*   - StateStore      (state/store.js), the sections the monitor and the  *)
(*                      push transport write                               *)
(*   - WebSocketService (services/websocket-service.js)                    *)
(*                                                                         *)
(* JavaScript runs one callback at a time, so each action below is one     *)
(* callback run to completion (or the part of an async function between    *)
(* two awaits).  Time is discrete with a grain of HealthInterval seconds:  *)
(* Elapse lets one grain pass, timestamps are kept as ages in grains.      *)
(***************************************************************************)
EXTENDS Integers, Sequences, FiniteSets

\* ---------------------------------------------------------------- bounds
\* polling cycles that may be awaiting their fetch / body at the same time
MaxInflight == 2
\* pending 30s recovery timers
MaxRecovery == 2
\* cap of the failure counters (pollingRetries, connectionState.errors)
MaxCount == 3
\* sockets the wrapper has abandoned that are not closed yet
MaxOrphans == 1
\* pending reconnect timers
MaxTimers == 2
\* alert records the alert manager creates
MaxAlerts == 2
\* cap of an alert's updateCount
MaxUpdates == 2

\* ------------------------------------------------------ program constants
\* realtime-monitor.js: setInterval(..., 10000), in seconds
HealthInterval == 10
\* realtime-monitor.js: secondsSinceLastUpdate > 30
StaleAfter == 30
\* realtime-monitor.js: setTimeout(..., 30000), in seconds
RecoveryDelay == 30
\* realtime-monitor.js: this.maxPollingRetries = 3
maxPollingRetries == 3

\* websocket-service.js: this.reconnectInterval = 3000, in milliseconds
reconnectInterval == 3000
\* websocket-service.js: this.maxRetries = 10
maxRetries == 10

\* ages saturate at the first grain count that is above StaleAfter seconds
AgeCap == StaleAfter \div HealthInterval + 1

Null == -1
\* a property that is undefined (an unset threshold, a missing map entry)
Undefined == -2
Modes == {"none", "websocket", "polling", "offline"}
MotorIds == {"motor1", "motor2"}
\* the motors a polled payload may carry fields of
Payloads == {{}, {"motor1"}, MotorIds}

VARIABLES
    \* RealtimeMonitor
    life,             \* "new" (constructed), "started" (start() ran), "stopped"
    mode,             \* connectionState.mode
    errors,           \* connectionState.errors
    isPollingActive,  \* the in-flight flag
    pollingRetries,
    fetching,         \* executePollingCycle calls suspended at `await fetch`
    parsing,          \* executePollingCycle calls suspended at `await response.json()`
    recovery,         \* pending recovery timers: seconds left, oldest first
    \* StateStore
    connection,       \* state.connection: [mode, lastUpdate (age)]
    motors,           \* state.motors: per motor [data, isSimulated]
    kpis,             \* state.kpis: [activeAlerts, data]
    alerts,           \* state.alerts: [active, history]
    \* AlertManager
    activeAlerts,     \* alertKey -> alert record, NoAlert when the key has none
    alertHistory,     \* newest first
    lastCheckedValues,\* alertKey -> the value evaluated last, Undefined when none
    nextId,           \* the next value of crypto.randomUUID()
    \* WebSocketService
    socket,           \* this.socket: "null", or the readyState of the socket
    orphans,          \* sockets the wrapper no longer references, by readyState
    currentRetries,
    isManualClose,
    timers,           \* pending reconnect timers
    urlOk,            \* whether `new WebSocket(this.url)` succeeds
    \* observation
    last,             \* the callback that ran last
    sinceStart,       \* age of the call of start() (Null: not called)
    prev,             \* the reading checkThreshold() was called with last
    request,          \* the alert id of the 'alerts:resolve' event handled last
    call,             \* the arguments of the updateMotor() call made last
    toCheck,          \* the readings the subscriber of 'motors' has yet to check
                      \* in the notification that runs
    scenarioStep,     \* how many readings of ScenarioReadings have been observed,
                      \* Null once the readings differ from that sequence
    delays,           \* the delays of the reconnects scheduled since the last open
    eff,              \* what the last callback did: "socket", "timer", "maxRetries"
    retryPhase,       \* "normal", "exhausted" (maxRetries emitted), "rearmed"
    staleTimers       \* pending reconnect timers scheduled before the last disconnect()

monVars == <<life, mode, errors, isPollingActive, pollingRetries,
             fetching, parsing, recovery>>
storeVars == <<connection, motors>>
wsVars == <<socket, orphans, currentRetries, isManualClose, timers, urlOk,
            delays, eff, retryPhase, staleTimers>>
amVars == <<activeAlerts, alertHistory, lastCheckedValues, nextId, alerts, prev,
            scenarioStep, request, call, toCheck>>
vars == <<monVars, storeVars, wsVars, amVars, kpis, last, sinceStart>>

\* ------------------------------------------------------------ StateStore
\* constructor: the initial state object
StoreInit ==
    /\ connection = [mode |-> "websocket", lastUpdate |-> Null]
    /\ motors = [m \in MotorIds |-> [data |-> "init", isSimulated |-> FALSE]]
    /\ kpis = [activeAlerts |-> 0, data |-> "init"]
    /\ alerts = [active |-> <<>>, history |-> <<>>]

\* updateState('connection', data): shallow merge of the given fields
updateConnection(conn, data) ==
    [f \in DOMAIN conn |-> IF f \in DOMAIN data THEN data[f] ELSE conn[f]]

\* mutant: the merge in the other order, { ...data, ...motor, lastUpdate: now }
updateMotorKeeps(ms, motorId, data) ==
    IF motorId \notin DOMAIN ms THEN ms
    ELSE [ms EXCEPT ![motorId] =
            [f \in DOMAIN ms[motorId] |-> IF f = "lastUpdate" THEN 0 ELSE ms[motorId][f]]]

\* updateMotor(motorId, data): nothing for an unknown motor; else the shallow
\* merge { ...motor, ...data, lastUpdate: now }. A motor record of the model has
\* all its fields, Undefined standing for an absent one; where the readings, the
\* status and lastUpdate of a motor are kept as the single field `data`, the
\* timestamp is part of that field.
updateMotor(ms, motorId, data) ==
    IF motorId \notin DOMAIN ms THEN ms
    ELSE [ms EXCEPT ![motorId] =
            [f \in DOMAIN ms[motorId] |->
                IF f = "lastUpdate" THEN 0
                ELSE IF f \in DOMAIN data THEN data[f] ELSE ms[motorId][f]]]

\* ------------------------------------------------------- RealtimeMonitor
\* constructor
MonitorInit ==
    /\ life = "new"
    /\ mode = "none"
    /\ errors = 0
    /\ isPollingActive = FALSE
    /\ pollingRetries = 0
    /\ fetching = 0
    /\ parsing = 0
    /\ recovery = <<>>

\* ---------------------------------------------------------- AlertManager
\* Readings and thresholds are in tenths of the unit, so that a reading with one
\* decimal is an integer.
\* config.MOTORS: the monitored variables with their thresholds (the scenario of
\* the specification for the temperature: critical 105, normalMax 95, normalMin 60)
MonitoredVariables ==
    { [motorId |-> "motor1", key |-> "temperature", alertKey |-> "motor1-temperature",
       normalMin |-> 600, normalMax |-> 950, critical |-> 1050, criticalLow |-> Undefined],
      [motorId |-> "motor2", key |-> "oil_pressure", alertKey |-> "motor2-oil_pressure",
       normalMin |-> 300, normalMax |-> 650, critical |-> Undefined, criticalLow |-> 200] }

AlertKeys == {v.alertKey : v \in MonitoredVariables}

\* the readings a variable is observed with
Readings(variable) ==
    IF variable.key = "temperature"
    THEN {590, 600, 610, 700, 950, 960, 1050, 1060, 1079}
    ELSE {200, 290, 300, 700}

\* the scenario of the specification: motor1 temperature 70, 106, 107.9, 60
ScenarioReadings == <<700, 1060, 1079, 600>>

\* the readings a pushed telemetry snapshot carries
PushedReadings(variable) ==
    IF variable.key = "temperature" THEN {700, 1060} ELSE {200, 300}

\* the value of a map entry that does not exist
NoAlert == [id |-> <<"none", 0>>]

\* no updateMotor() call has been made
NoCall == [motorId |-> "none", data |-> <<>>]

\* loadDemoHistory()
demoAlerts ==
    << [id |-> <<"demo", 1>>, key |-> "motor1-temperature-demo", value |-> <<105, 5>>,
        severity |-> "critical", resolved |-> TRUE, resolvedAt |-> 1],
       [id |-> <<"demo", 2>>, key |-> "motor2-oil_pressure-demo", value |-> <<28, 3>>,
        severity |-> "warning", resolved |-> FALSE, resolvedAt |-> Undefined] >>

\* AlertManager constructor and initialize()
AlertInit ==
    /\ activeAlerts = [k \in AlertKeys |-> NoAlert]
    /\ alertHistory = demoAlerts
    /\ lastCheckedValues = [k \in AlertKeys |-> Undefined]
    /\ nextId = 1
    /\ prev = [key |-> "none", value |-> Undefined]
    /\ scenarioStep = 0
    /\ request = NoAlert.id
    /\ call = NoCall
    /\ toCheck = <<>>

\* WebSocketService constructor
ServiceInit ==
    /\ socket = "null"
    /\ orphans = [connecting |-> 0, open |-> 0, closing |-> 0]
    /\ currentRetries = 0
    /\ isManualClose = FALSE
    /\ timers = 0
    /\ delays = <<>>
    /\ eff = {}
    /\ retryPhase = "normal"
    /\ staleTimers = 0

Init ==
    /\ MonitorInit
    /\ StoreInit
    /\ ServiceInit
    /\ AlertInit
    /\ urlOk = TRUE
    /\ last = "init"
    /\ sinceStart = Null

\* the listeners of setupConnectionListeners and the health interval exist once
\* start() has run; stop() removes neither
listening == life # "new"

\* start()
Start ==
    /\ UNCHANGED <<wsVars, amVars, kpis>>
    /\ life = "new"
    /\ life' = "started"
    /\ mode' = "websocket"
    /\ sinceStart' = 0
    /\ last' = "start"
    /\ UNCHANGED <<errors, isPollingActive, pollingRetries, fetching, parsing,
                   recovery, storeVars>>

\* pausePolling(): the value the in-flight flag gets
pausePolling(active) == FALSE

\* mutant: resumePolling() leaves the flag as it is
resumePollingKeepsFlag(active) == active

\* resumePolling(): the value the in-flight flag gets ("Permitir nuevo ciclo")
resumePolling(active) == FALSE

\* listener of 'websocket:connected'
OnConnected ==
    /\ mode' = "websocket"
    /\ errors' = 0
    /\ connection' = updateConnection(connection,
           [mode |-> "websocket", lastUpdate |-> 0])
    /\ isPollingActive' = pausePolling(isPollingActive)
    /\ UNCHANGED <<life, pollingRetries, fetching, parsing, recovery,
                   motors>>

\* listener of 'websocket:disconnected'
OnDisconnected ==
    /\ mode' = "polling"
    /\ connection' = updateConnection(connection,
           [mode |-> "polling"])
    /\ isPollingActive' = resumePolling(isPollingActive)
    /\ UNCHANGED <<life, errors, pollingRetries, fetching, parsing,
                   recovery, motors>>

\* useSimulatedData(): both motors get simulated readings
simulatedReading == [data |-> "sim", isSimulated |-> TRUE]

useSimulatedData(ms) ==
    updateMotor(updateMotor(ms, "motor1", simulatedReading), "motor2", simulatedReading)

\* scheduleRecoveryAttempt(): setTimeout(..., 30000); no handle is kept
scheduleRecoveryAttempt(pending) == Append(pending, RecoveryDelay)

\* activateOfflineMode(): the connection record it leaves in the store
offlineConnection(conn) ==
    updateConnection(conn, [mode |-> "offline", lastUpdate |-> 0])

\* activateOfflineMode()
activateOfflineMode ==
    /\ mode' = "offline"
    /\ connection' = offlineConnection(connection)
    /\ motors' = useSimulatedData(motors)
    /\ recovery' = scheduleRecoveryAttempt(recovery)

\* listener of 'websocket:maxRetries' (its own store update is overwritten by
\* the one of activateOfflineMode)
OnMaxRetries ==
    /\ Len(recovery) < MaxRecovery
    /\ activateOfflineMode
    /\ UNCHANGED <<life, errors, isPollingActive, pollingRetries,
                   fetching, parsing>>

\* the three events as dispatched on the document while the monitor listens
EvConnected ==
    /\ UNCHANGED <<wsVars, amVars, kpis>>
    /\ listening
    /\ OnConnected
    /\ last' = "connected"
    /\ UNCHANGED sinceStart

EvDisconnected ==
    /\ UNCHANGED <<wsVars, amVars, kpis>>
    /\ listening
    /\ OnDisconnected
    /\ last' = "disconnected"
    /\ UNCHANGED sinceStart

EvMaxRetries ==
    /\ UNCHANGED <<wsVars, amVars, kpis>>
    /\ listening
    /\ OnMaxRetries
    /\ last' = "maxRetries"
    /\ UNCHANGED sinceStart

\* seconds since a timestamp kept as an age; new Date(null || 0) is the epoch
secondsSince(age) ==
    IF age = Null THEN (AgeCap + 1) * HealthInterval ELSE age * HealthInterval

\* mutant: the data is never found stale
staleNever(lastUpdate) == FALSE

\* mutant: stale already at exactly StaleAfter seconds
staleAtThreshold(lastUpdate) == secondsSince(lastUpdate) >= StaleAfter

\* checkConnectionHealth(): secondsSinceLastUpdate > 30
stale(lastUpdate) == secondsSince(lastUpdate) > StaleAfter

\* an age one grain later
older(age) == IF age = Null \/ age >= AgeCap THEN age ELSE age + 1

\* HealthInterval seconds pass: every callback that was due has run, the
\* timestamps age and the timers come closer
Passes ==
    /\ \A i \in 1..Len(recovery) : recovery[i] > 0
    /\ recovery' = [i \in 1..Len(recovery) |-> recovery[i] - HealthInterval]
    /\ sinceStart' = older(sinceStart)

\* startConnectionMonitor() interval callback, HealthInterval seconds after the
\* previous one: checkConnectionHealth()
CheckConnectionHealth ==
    /\ UNCHANGED <<wsVars, amVars, kpis>>
    /\ listening
    /\ Passes
    /\ LET aged == [connection EXCEPT !.lastUpdate = older(@)]
       IN  IF stale(aged.lastUpdate) /\ mode = "websocket"
           THEN /\ mode' = "polling"
                /\ connection' = updateConnection(aged, [mode |-> "polling"])
                /\ isPollingActive' = resumePolling(isPollingActive)
                /\ last' = "healthForced"
           ELSE /\ connection' = aged
                /\ UNCHANGED <<mode, isPollingActive>>
                /\ last' = "healthOk"
    /\ UNCHANGED <<life, errors, pollingRetries, fetching, parsing, motors>>

\* HealthInterval seconds pass before start(): no interval exists yet
Elapse ==
    /\ UNCHANGED <<wsVars, amVars, kpis>>
    /\ ~listening
    /\ Passes
    /\ connection' = [connection EXCEPT !.lastUpdate = older(@)]
    /\ last' = "other"
    /\ UNCHANGED <<life, mode, errors, isPollingActive, pollingRetries, fetching,
                   parsing, motors>>

\* mutant: escalation one failure late
escalatesLate(retries) == retries > maxPollingRetries

\* handlePollingError(): escalate once pollingRetries has reached the maximum
escalates(retries) == retries >= maxPollingRetries

\* executePollingCycle(): catch block, handlePollingError() and the finally block
PollingFailure ==
    /\ errors < MaxCount
    /\ pollingRetries < MaxCount
    /\ errors' = errors + 1
    /\ pollingRetries' = pollingRetries + 1
    /\ IF escalates(pollingRetries + 1)
       THEN /\ Len(recovery) < MaxRecovery
            /\ activateOfflineMode
       ELSE UNCHANGED <<mode, connection, motors, recovery>>
    /\ isPollingActive' = FALSE
    /\ UNCHANGED <<life, sinceStart>>

\* processPollingData(apiData): the motors whose fields the payload carries get
\* them merged (with status and lastUpdate); nothing else of a motor is touched
processPollingData(ms, present) ==
    LET m1 == IF "motor1" \in present
              THEN updateMotor(ms, "motor1", [data |-> "real"]) ELSE ms
    IN  IF "motor2" \in present THEN updateMotor(m1, "motor2", [data |-> "real"]) ELSE m1

\* executePollingCycle(): the statements after `await response.json()`, and finally
PollingSuccess(present) ==
    /\ motors' = processPollingData(motors, present)
    /\ pollingRetries' = 0
    /\ errors' = 0
    /\ connection' = updateConnection(connection,
           [mode |-> "polling", lastUpdate |-> 0])
    /\ isPollingActive' = FALSE
    /\ UNCHANGED <<life, mode, recovery, sinceStart>>

\* startFallbackPolling() interval callback: the condition to start a cycle
tickStarts == mode = "polling" /\ ~isPollingActive

\* startFallbackPolling() interval callback, with executePollingCycle() up to its
\* first await: without a token the cycle fails before it suspends
PollTick ==
    /\ UNCHANGED <<wsVars, amVars, kpis>>
    /\ life = "started"
    /\ IF tickStarts
       THEN \E token \in BOOLEAN :
              /\ fetching + parsing < MaxInflight
              /\ IF token
                 THEN /\ isPollingActive' = TRUE
                      /\ fetching' = fetching + 1
                      /\ last' = "tickStart"
                      /\ UNCHANGED <<life, mode, errors, pollingRetries,
                                     recovery, storeVars, sinceStart>>
                 ELSE /\ PollingFailure
                      /\ last' = "tickNoToken"
                      /\ UNCHANGED fetching
       ELSE /\ last' = "other"
            /\ UNCHANGED <<monVars, storeVars, sinceStart>>
    /\ UNCHANGED parsing

\* `await fetch(...)` settles: a response with ok status, or an error, a timeout
\* or a non-2xx status
FetchSettles ==
    /\ UNCHANGED <<wsVars, amVars, kpis>>
    /\ fetching > 0
    /\ fetching' = fetching - 1
    /\ \E ok \in BOOLEAN :
          IF ok
          THEN /\ parsing' = parsing + 1
               /\ last' = "other"
               /\ UNCHANGED <<life, mode, errors, isPollingActive,
                              pollingRetries, recovery, storeVars, sinceStart>>
          ELSE /\ PollingFailure
               /\ last' = "pollFail"
               /\ UNCHANGED parsing

\* `await response.json()` settles: the payload (which motors it carries), or a
\* parse error
JsonSettles ==
    /\ UNCHANGED <<wsVars, amVars, kpis>>
    /\ parsing > 0
    /\ parsing' = parsing - 1
    /\ UNCHANGED fetching
    /\ \/ \E present \in Payloads :
             /\ PollingSuccess(present)
             /\ last' = "pollOk"
       \/ /\ PollingFailure
          /\ last' = "pollFail"

\* mutant: the recovery leaves pollingRetries as it is
retriesKeptAfterRecovery(retries) == retries

\* scheduleRecoveryAttempt() timer callback: this.pollingRetries = 0
retriesAfterRecovery(retries) == 0

\* scheduleRecoveryAttempt() timer callback
RecoveryFires ==
    /\ UNCHANGED <<wsVars, amVars, kpis>>
    /\ recovery # <<>>
    /\ Head(recovery) = 0
    /\ recovery' = Tail(recovery)
    /\ IF mode = "offline"
       THEN /\ mode' = "polling"
            /\ pollingRetries' = retriesAfterRecovery(pollingRetries)
            /\ isPollingActive' = resumePolling(isPollingActive)
            /\ last' = "recovery"
       ELSE /\ UNCHANGED <<mode, pollingRetries, isPollingActive>>
            /\ last' = "other"
    /\ UNCHANGED <<life, errors, fetching, parsing,
                   storeVars, sinceStart>>

\* stop(): clears the polling interval only
Stop ==
    /\ UNCHANGED <<wsVars, amVars, kpis>>
    /\ life = "started"
    /\ life' = "stopped"
    /\ isPollingActive' = FALSE
    /\ pollingRetries' = 0
    /\ mode' = "none"
    /\ last' = "stop"
    /\ UNCHANGED <<errors, fetching, parsing, recovery,
                   storeVars, sinceStart>>

\* WebSocketService onmessage: a push message refreshes connection.lastUpdate
PushRefresh ==
    /\ UNCHANGED <<wsVars, amVars, kpis>>
    /\ connection' = updateConnection(connection, [lastUpdate |-> 0])
    /\ last' = "other"
    /\ UNCHANGED <<monVars, motors, sinceStart>>

Next ==
    \/ Start
    \/ Stop
    \/ EvConnected
    \/ EvDisconnected
    \/ EvMaxRetries
    \/ CheckConnectionHealth
    \/ PollTick
    \/ FetchSettles
    \/ JsonSettles
    \/ RecoveryFires
    \/ Elapse
    \/ PushRefresh

Spec == Init /\ [][Next]_vars

\* ------------------------------------------------------ WebSocketService
RECURSIVE Pow(_, _)
Pow(b, e) == IF e = 0 THEN 1 ELSE b * Pow(b, e - 1)

\* x * Math.pow(1.5, k), exactly, in units of 2^-maxRetries (k <= maxRetries)
timesPow15(x, k) == x * Pow(3, k) * Pow(2, maxRetries - k)

\* mutant: the exponent is the retry number itself
reconnectDelayOffByOne(retries) == timesPow15(reconnectInterval, retries)

\* scheduleReconnect(): this.reconnectInterval * Math.pow(1.5, this.currentRetries - 1)
reconnectDelay(retries) == timesPow15(reconnectInterval, retries - 1)

\* scheduleReconnect(): whether it schedules a timer
schedules == currentRetries < maxRetries

\* scheduleReconnect(), with t timers pending when it is called
scheduleReconnectFrom(t) ==
    IF schedules
    THEN /\ t < MaxTimers
         /\ currentRetries' = currentRetries + 1
         /\ timers' = t + 1
         /\ delays' = Append(delays, reconnectDelay(currentRetries + 1))
    ELSE /\ timers' = t
         /\ UNCHANGED <<currentRetries, delays>>

\* isConnected()
isConnected == socket = "open"

\* the sockets that still exist unreferenced once this.socket is replaced
abandon(bag, old) ==
    IF old \in {"connecting", "open", "closing"}
    THEN [bag EXCEPT ![old] = @ + 1]
    ELSE bag

orphanCount(bag) == bag.connecting + bag.open + bag.closing

\* connect(), with t timers pending when it is called
connectFrom(t) ==
    IF isConnected
    THEN /\ timers' = t
         /\ eff' = {}
         /\ UNCHANGED <<socket, orphans, currentRetries, isManualClose, delays>>
    ELSE /\ isManualClose' = FALSE
         /\ IF urlOk
            THEN /\ orphanCount(abandon(orphans, socket)) <= MaxOrphans
                 /\ socket' = "connecting"
                 /\ orphans' = abandon(orphans, socket)
                 /\ timers' = t
                 /\ eff' = {"socket"}
                 /\ UNCHANGED <<currentRetries, delays>>
            ELSE /\ scheduleReconnectFrom(t)
                 /\ eff' = IF schedules THEN {"timer"} ELSE {}
                 /\ UNCHANGED <<socket, orphans>>

\* connect() called by the application
Connect ==
    /\ UNCHANGED <<amVars, kpis>>
    /\ connectFrom(timers)
    /\ retryPhase' = IF retryPhase = "exhausted" /\ ~isConnected /\ urlOk
                     THEN "rearmed" ELSE retryPhase
    /\ last' = "connect"
    /\ UNCHANGED <<monVars, storeVars, urlOk, sinceStart, staleTimers>>

\* disconnect(): no timer is cleared, no handler is detached
Disconnect ==
    /\ UNCHANGED <<amVars, kpis>>
    /\ isManualClose' = TRUE
    /\ staleTimers' = timers
    /\ socket' = "null"
    /\ LET closed == IF socket \in {"connecting", "open"} THEN "closing" ELSE socket
       IN  /\ orphanCount(abandon(orphans, closed)) <= MaxOrphans
           /\ orphans' = abandon(orphans, closed)
    /\ eff' = {}
    /\ last' = "disconnect"
    /\ UNCHANGED <<monVars, storeVars, currentRetries, timers, urlOk, delays,
                   retryPhase, sinceStart>>

\* socket.onopen, of the referenced socket or of an abandoned one; the
\* 'websocket:connected' event reaches the monitor's listener when there is one
SocketOpens ==
    /\ UNCHANGED <<amVars, kpis>>
    /\ \/ /\ socket = "connecting"
          /\ socket' = "open"
          /\ UNCHANGED orphans
       \/ /\ orphans.connecting > 0
          /\ orphans' = [orphans EXCEPT !.connecting = @ - 1, !.open = @ + 1]
          /\ UNCHANGED socket
    /\ currentRetries' = 0
    /\ delays' = <<>>
    /\ IF listening
       THEN OnConnected
       ELSE /\ connection' = updateConnection(connection,
                   [mode |-> "websocket", lastUpdate |-> 0])
            /\ UNCHANGED <<monVars, motors>>
    /\ eff' = {"connected"}
    /\ retryPhase' = "normal"
    /\ last' = "open"
    /\ UNCHANGED <<isManualClose, timers, urlOk, sinceStart, staleTimers>>

\* mutant: onclose retries without looking at isManualClose
retriesOnCloseAlways(manual, retries) == retries < maxRetries

\* socket.onclose: whether it calls scheduleReconnect()
retriesOnClose(manual, retries) == ~manual /\ retries < maxRetries

\* socket.onclose: the 'websocket:maxRetries' event reaches the monitor's
\* listener when there is one
onclose ==
    IF retriesOnClose(isManualClose, currentRetries)
    THEN /\ scheduleReconnectFrom(timers)
         /\ eff' = {"timer"}
         /\ UNCHANGED <<monVars, storeVars, retryPhase>>
    ELSE IF ~isManualClose
    THEN /\ eff' = {"maxRetries"}
         /\ retryPhase' = "exhausted"
         /\ IF listening THEN OnMaxRetries ELSE UNCHANGED <<monVars, storeVars>>
         /\ UNCHANGED <<currentRetries, timers, delays>>
    ELSE /\ eff' = {}
         /\ UNCHANGED <<monVars, storeVars, retryPhase, currentRetries, timers, delays>>

\* the close event of a socket: the referenced one (a failed attempt or a lost
\* connection) or an abandoned one (also one that disconnect() closed)
SocketCloses ==
    /\ UNCHANGED <<amVars, kpis>>
    /\ \/ /\ socket \in {"connecting", "open"}
          /\ socket' = "closed"
          /\ UNCHANGED orphans
       \/ \E st \in {"connecting", "open", "closing"} :
             /\ orphans[st] > 0
             /\ orphans' = [orphans EXCEPT ![st] = @ - 1]
             /\ UNCHANGED socket
    /\ onclose
    /\ last' = "close"
    /\ UNCHANGED <<isManualClose, urlOk, sinceStart, staleTimers>>

\* mutant: the timer callback connects whatever isManualClose is
timerConnectsAlways(manual) == TRUE

\* scheduleReconnect() timer callback: if (!this.isManualClose)
timerConnects(manual) == ~manual

\* scheduleReconnect() timer callback: the timer is gone when it runs; the
\* timer that fires is one scheduled before the last disconnect() or a later one
ReconnectFires ==
    /\ UNCHANGED <<amVars, kpis>>
    /\ timers > 0
    /\ \/ staleTimers > 0 /\ staleTimers' = staleTimers - 1
       \/ timers > staleTimers /\ staleTimers' = staleTimers
    /\ IF timerConnects(isManualClose)
       THEN connectFrom(timers - 1)
       ELSE /\ timers' = timers - 1
            /\ eff' = {}
            /\ UNCHANGED <<socket, orphans, currentRetries, isManualClose, delays>>
    /\ last' = "timer"
    /\ UNCHANGED <<monVars, storeVars, urlOk, retryPhase, sinceStart>>

\* the keys of this.messageHandlers
KnownTypes == {"telemetry_latest", "motor_status", "system_alert", "kpi_update"}

\* the monitored variable of a motor
variableOf(motorId) == CHOOSE v \in MonitoredVariables : v.motorId = motorId

\* the `data` object of a telemetry_latest message: per motor the reading of its
\* variable, Undefined when the payload does not carry it
TelemetryData ==
    [MotorIds -> {Undefined}] \cup
    UNION { UNION { {[m \in MotorIds |-> IF m = id THEN r ELSE Undefined],
                     [m \in MotorIds |-> r]} :
                    r \in PushedReadings(variableOf(id)) } : id \in MotorIds }

\* an inbound frame: text that is not JSON, the JSON value null, or an object
Frame(json, type, data, motorId, status, kpisData) ==
    [json |-> json, type |-> type, data |-> data, motorId |-> motorId,
     status |-> status, kpis |-> kpisData]

NoData == [m \in MotorIds |-> Undefined]

Frames ==
    {Frame("malformed", "none", NoData, "none", FALSE, FALSE),
     Frame("null", "none", NoData, "none", FALSE, FALSE),
     Frame("object", "system_alert", NoData, "none", FALSE, FALSE)}
    \cup {Frame("object", t, NoData, "none", FALSE, k) :
            t \in {"heartbeat", "kpi_update"}, k \in BOOLEAN}
    \cup {Frame("object", "telemetry_latest", d, "none", FALSE, FALSE) :
            d \in TelemetryData}
    \cup {Frame("object", "motor_status", NoData, id, st, FALSE) :
            id \in MotorIds \cup {"motor9"}, st \in BOOLEAN}

\* mutant: a type without a handler is handled as a kpi_update
handlerFallsBack(type) == IF type \in KnownTypes THEN type ELSE "kpi_update"

\* processMessage(): this.messageHandlers[type]
handlerOf(type) == IF type \in KnownTypes THEN type ELSE "none"

\* WebSocketService.checkThreshold(): whether it calls this.alertManager.addAlert
callsAddAlert(variable, value) ==
    \/ variable.critical # Undefined /\ value >= variable.critical
    \/ variable.criticalLow # Undefined /\ value <= variable.criticalLow
    \/ value > variable.normalMax
    \/ value < variable.normalMin

\* checkForAlerts(data): whether a checkThreshold() call reaches addAlert, which
\* AlertManager does not define, so that the call throws a TypeError
checkForAlertsThrows(data) ==
    \E id \in MotorIds :
        data[id] # Undefined /\ callsAddAlert(variableOf(id), data[id])

\* handleTelemetryLatest(): the updateMotor() calls, one per key of data
forwardTelemetry(ms, data) ==
    LET m1 == IF data["motor1"] # Undefined
              THEN updateMotor(ms, "motor1", [data |-> "real"]) ELSE ms
    IN  IF data["motor2"] # Undefined
        THEN updateMotor(m1, "motor2", [data |-> "real"]) ELSE m1

\* socket.onmessage, on the referenced socket or on an abandoned one that is open.
\* The store notifies its subscribers of each updateMotor(); the subscription of
\* the alert manager is the CheckThreshold action, taken with any readings in
\* SpecAM.
\* eff records "forwarded" (updateMotor ran), "threw" (the catch block ran) and
\* "refreshed" (connection.lastUpdate set after processMessage returned).
SocketMessage ==
    /\ socket = "open" \/ orphans.open > 0
    /\ \E frame \in Frames :
          LET handler == IF frame.json = "object" THEN handlerOf(frame.type) ELSE "none"
              throws ==
                  \/ frame.json # "object"
                  \/ handler = "system_alert"
                  \/ handler = "telemetry_latest" /\ checkForAlertsThrows(frame.data)
              forwards ==
                  \/ handler = "telemetry_latest" /\ frame.data # NoData
                  \/ handler = "motor_status" /\ frame.motorId \in MotorIds /\ frame.status
          IN  /\ motors' =
                    IF handler = "telemetry_latest" THEN forwardTelemetry(motors, frame.data)
                    ELSE IF forwards THEN updateMotor(motors, frame.motorId, [data |-> "real"])
                    ELSE motors
              /\ kpis' = IF handler = "kpi_update" /\ frame.kpis
                         THEN [kpis EXCEPT !.data = "push"] ELSE kpis
              /\ connection' = IF throws THEN connection
                               ELSE updateConnection(connection, [lastUpdate |-> 0])
              /\ eff' = (IF forwards THEN {"forwarded"} ELSE {})
                           \cup (IF throws THEN {"threw"} ELSE {"refreshed"})
              /\ last' = CASE frame.json # "object" -> "msgInvalid"
                            [] frame.type \notin KnownTypes -> "msgUnknown"
                            [] OTHER -> frame.type
    /\ UNCHANGED <<monVars, amVars, socket, orphans, currentRetries, isManualClose,
                   timers, urlOk, delays, retryPhase, staleTimers, sinceStart>>

NextWS ==
    \/ Connect
    \/ Disconnect
    \/ SocketOpens
    \/ SocketCloses
    \/ ReconnectFires
    \/ SocketMessage

\* the service on its own: no monitor has been started, the URL is good or bad
InitWS ==
    /\ MonitorInit
    /\ StoreInit
    /\ ServiceInit
    /\ AlertInit
    /\ urlOk \in BOOLEAN
    /\ last = "init"
    /\ sinceStart = Null

SpecWS == InitWS /\ [][NextWS]_vars

\* ------------------------------------------- AlertManager.checkThreshold
\* this.maxHistory = 100, and the history limit of StateStore.addAlert
maxHistory == 100

\* Math.abs
Abs(x) == IF x < 0 THEN 0 - x ELSE x

\* mutant: the decimal digit is dropped
toFixedNoDecimal(value) == <<value \div 10, 0>>

\* value.toFixed(1): the integer part and one decimal digit
toFixed1(value) == <<value \div 10, value % 10>>

\* mutant: the hysteresis band includes its edge
suppressedAtEdge(variable, lastValue, value) ==
    lastValue # Undefined /\ 100 * Abs(value - lastValue) <= 2 * variable.normalMax

\* checkThreshold(): lastValue !== undefined &&
\* Math.abs(value - lastValue) < variable.normalMax * 0.02
suppressed(variable, lastValue, value) ==
    lastValue # Undefined /\ 100 * Abs(value - lastValue) < 2 * variable.normalMax

\* mutant: the warning bands are tested before the critical thresholds
severityWarningFirst(variable, value) ==
    IF value > variable.normalMax THEN [severity |-> "warning", message |-> "ALTA"]
    ELSE IF value < variable.normalMin THEN [severity |-> "warning", message |-> "BAJA"]
    ELSE IF variable.critical # Undefined /\ value >= variable.critical
    THEN [severity |-> "critical", message |-> "CRITICA"]
    ELSE IF variable.criticalLow # Undefined /\ value <= variable.criticalLow
    THEN [severity |-> "critical", message |-> "CRITICAMENTE BAJA"]
    ELSE [severity |-> "normal", message |-> ""]

\* checkThreshold(): the if / else-if chain over the thresholds
severityOf(variable, value) ==
    IF variable.critical # Undefined /\ value >= variable.critical
    THEN [severity |-> "critical", message |-> "CRITICA"]
    ELSE IF variable.criticalLow # Undefined /\ value <= variable.criticalLow
    THEN [severity |-> "critical", message |-> "CRITICAMENTE BAJA"]
    ELSE IF value > variable.normalMax THEN [severity |-> "warning", message |-> "ALTA"]
    ELSE IF value < variable.normalMin THEN [severity |-> "warning", message |-> "BAJA"]
    ELSE [severity |-> "normal", message |-> ""]

\* MotorCoordinator.updateGaugeStatus(): the status of the gauge
updateGaugeStatus(variable, value) ==
    IF variable.critical # Undefined /\ value >= variable.critical THEN "critical"
    ELSE IF variable.criticalLow # Undefined /\ value <= variable.criticalLow THEN "critical"
    ELSE IF value > variable.normalMax \/ value < variable.normalMin THEN "warning"
    ELSE "normal"

\* this.activeAlerts.has(alertKey)
hasAlert(active, key) == active[key] # NoAlert

\* a timestamp one callback later: 0 is the callback that runs, 1 an earlier one
aged(stamp) == IF stamp = 0 THEN 1 ELSE stamp

\* the records as the callback that runs finds them
agedActive(active) ==
    [k \in DOMAIN active |->
        IF hasAlert(active, k) THEN [active[k] EXCEPT !.timestamp = aged(@)] ELSE active[k]]

agedHistory(history) ==
    [i \in 1..Len(history) |-> [history[i] EXCEPT !.resolvedAt = aged(@)]]

\* mutant: shift() instead of pop() above maxHistory
unshiftShifts(history, record) ==
    LET longer == <<record>> \o history
    IN  IF Len(longer) > maxHistory THEN Tail(longer) ELSE longer

\* unshift(record) and pop() above maxHistory
unshiftBounded(history, record) ==
    LET longer == <<record>> \o history
    IN  IF Len(longer) > maxHistory THEN SubSeq(longer, 1, Len(longer) - 1) ELSE longer

\* the copy of an alert that the history and the store keep
historyRecord(alert, id) ==
    [id |-> id, key |-> alert.key, value |-> alert.value, severity |-> alert.severity,
     updateCount |-> alert.updateCount, resolved |-> FALSE, resolvedAt |-> Undefined]

\* StateStore.addAlert(alert): the record gets an id of its own
addAlert(section, alert, id) ==
    [active |-> Append(section.active, historyRecord(alert, id)),
     history |-> unshiftBounded(section.history, historyRecord(alert, id))]

\* StateStore.resolveAlert(alertId): marks the record with that id resolved (the
\* history holds the same object) and removes it from the active list
resolveAlert(section, alertId) ==
    [active |-> SelectSeq(section.active, LAMBDA a : a.id # alertId),
     history |-> [i \in 1..Len(section.history) |->
                    IF /\ section.history[i].id = alertId
                       /\ \E j \in 1..Len(section.active) : section.active[j].id = alertId
                    THEN [section.history[i] EXCEPT !.resolved = TRUE, !.resolvedAt = 0]
                    ELSE section.history[i]]]

\* mutant: an update leaves updateCount as it is
updateCountKept(count) == count

\* handleAlert(): (existingAlert.updateCount || 0) + 1
updateCountAfter(count) == count + 1

\* handleAlert(): if (newAlert.severity === 'critical')
\* this.showCriticalAlertNotification(newAlert)
showCriticalAlertNotification(alert) ==
    IF alert.severity = "critical" THEN {"notified"} ELSE {}

\* handleAlert(alertData) on the aged records
handleAlert(key, value, sev) ==
    LET active == agedActive(activeAlerts)
        history == agedHistory(alertHistory)
    IN  IF hasAlert(active, key)
        THEN /\ active[key].updateCount < MaxUpdates
             /\ activeAlerts' = [active EXCEPT ![key] =
                    [@ EXCEPT !.value = toFixed1(value), !.severity = sev.severity,
                              !.message = sev.message, !.timestamp = 0,
                              !.updateCount = updateCountAfter(@)]]
             /\ alertHistory' = history
             /\ eff' = {"evaluated", "updated"}
             /\ UNCHANGED <<nextId, alerts, kpis>>
        ELSE LET newAlert == [id |-> <<"uuid", nextId>>, key |-> key,
                              value |-> toFixed1(value), severity |-> sev.severity,
                              message |-> sev.message, timestamp |-> 0,
                              updateCount |-> 1, resolved |-> FALSE]
             IN  /\ nextId < 2 * MaxAlerts
                 /\ activeAlerts' = [active EXCEPT ![key] = newAlert]
                 /\ alertHistory' = unshiftBounded(history, historyRecord(newAlert, newAlert.id))
                 /\ alerts' = addAlert(alerts, newAlert, <<"uuid", nextId + 1>>)
                 /\ kpis' = [kpis EXCEPT !.activeAlerts = Len(alerts'.active)]
                 /\ nextId' = nextId + 2
                 /\ eff' = {"evaluated", "created"} \cup showCriticalAlertNotification(newAlert)

\* mutant: the oldest history record of a key
lastWithKey(history, key) ==
    IF \E i \in 1..Len(history) : history[i].key = key
    THEN CHOOSE i \in 1..Len(history) :
            history[i].key = key /\ \A j \in (i + 1)..Len(history) : history[j].key # key
    ELSE 0

\* the newest history record of a key: this.alertHistory.find(a => a.key === alertKey)
firstWithKey(history, key) ==
    IF \E i \in 1..Len(history) : history[i].key = key
    THEN CHOOSE i \in 1..Len(history) :
            history[i].key = key /\ \A j \in 1..(i - 1) : history[j].key # key
    ELSE 0

\* resolveAlertByKey(alertKey) on the aged records, for a key that has an alert;
\* did: what the caller has done before
resolveAlertByKey(key, did) ==
    LET active == agedActive(activeAlerts)
        history == agedHistory(alertHistory)
        i == firstWithKey(history, key)
    IN  /\ activeAlerts' = [active EXCEPT ![key] = NoAlert]
        /\ alertHistory' = IF i = 0 THEN history
                           ELSE [history EXCEPT ![i].resolved = TRUE, ![i].resolvedAt = 0]
        /\ alerts' = resolveAlert(alerts, active[key].id)
        /\ kpis' = IF alerts' # alerts
                   THEN [kpis EXCEPT !.activeAlerts = Len(alerts'.active)] ELSE kpis
        /\ eff' = did \cup {"resolved"}
        /\ UNCHANGED nextId

\* checkThreshold(motorId, variable, value)
checkThreshold(variable, value) ==
    LET key == variable.alertKey
        sev == severityOf(variable, value)
    IN  /\ prev' = [key |-> key, value |-> value]
        /\ scenarioStep' =
              IF /\ scenarioStep # Null
                 /\ scenarioStep < Len(ScenarioReadings)
                 /\ key = "motor1-temperature"
                 /\ value = ScenarioReadings[scenarioStep + 1]
              THEN scenarioStep + 1 ELSE Null
        /\ IF suppressed(variable, lastCheckedValues[key], value)
           THEN /\ activeAlerts' = agedActive(activeAlerts)
                /\ alertHistory' = agedHistory(alertHistory)
                /\ eff' = {"suppressed"}
                /\ UNCHANGED <<lastCheckedValues, nextId, alerts, kpis>>
           ELSE /\ lastCheckedValues' = [lastCheckedValues EXCEPT ![key] = value]
                /\ IF sev.severity # "normal" /\ sev.message # ""
                   THEN handleAlert(key, value, sev)
                   ELSE IF hasAlert(activeAlerts, key)
                   THEN resolveAlertByKey(key, {"evaluated"})
                   ELSE /\ activeAlerts' = agedActive(activeAlerts)
                        /\ alertHistory' = agedHistory(alertHistory)
                        /\ eff' = {"evaluated"}
                        /\ UNCHANGED <<nextId, alerts, kpis>>
        /\ last' = "check"
        /\ UNCHANGED <<monVars, storeVars, socket, orphans, currentRetries, isManualClose,
                       timers, urlOk, delays, retryPhase, staleTimers, sinceStart,
                       request, call>>

\* checkThreshold() as the store subscription or any other caller invokes it
CheckThreshold ==
    /\ \E variable \in MonitoredVariables : \E value \in Readings(variable) :
          checkThreshold(variable, value)
    /\ UNCHANGED toCheck

NextAM ==
    \/ CheckThreshold

\* the alert manager on its own, called with any sequence of readings
SpecAM == Init /\ [][NextAM]_vars

\* ------------------------------------------- AlertManager.resolveAlert
\* the readings of the alert life cycle: normal, warning and critical ones
LifecycleReadings(variable) ==
    IF variable.key = "temperature" THEN {700, 960, 1060} ELSE {200, 290, 400}

\* the ids an 'alerts:resolve' event carries: the ids crypto.randomUUID() has
\* produced or will produce, those of the demo records, and one no record has
AlertIds ==
    {<<"uuid", n>> : n \in 0..(2 * MaxAlerts)} \cup {<<"demo", n>> : n \in 1..Len(demoAlerts)}

\* mutant: an id matches when its kind does
activeWithIdKind(active, alertId) ==
    IF \E k \in DOMAIN active : hasAlert(active, k) /\ active[k].id[1] = alertId[1]
    THEN CHOOSE k \in DOMAIN active : hasAlert(active, k) /\ active[k].id[1] = alertId[1]
    ELSE "none"

\* resolveAlert(): [...this.activeAlerts.values()].find(a => a.id === alertId),
\* as the key of the alert found, "none" when there is none
activeWithId(active, alertId) ==
    IF \E k \in DOMAIN active : hasAlert(active, k) /\ active[k].id = alertId
    THEN CHOOSE k \in DOMAIN active : hasAlert(active, k) /\ active[k].id = alertId
    ELSE "none"

\* listener of 'alerts:resolve': resolveAlert(alertId, resolvedBy)
ResolveAlert ==
    /\ \E alertId \in AlertIds :
          LET key == activeWithId(activeAlerts, alertId)
          IN  /\ request' = alertId
              /\ IF key = "none"
                 THEN /\ activeAlerts' = agedActive(activeAlerts)
                      /\ alertHistory' = agedHistory(alertHistory)
                      /\ eff' = {}
                      /\ UNCHANGED <<nextId, alerts, kpis>>
                 ELSE resolveAlertByKey(key, {})
    /\ last' = "resolve"
    /\ UNCHANGED <<monVars, storeVars, socket, orphans, currentRetries, isManualClose,
                   timers, urlOk, delays, retryPhase, staleTimers, sinceStart,
                   lastCheckedValues, prev, scenarioStep, call, toCheck>>

\* checkThreshold() with the readings of the life cycle
CheckReading ==
    /\ \E variable \in MonitoredVariables : \E value \in LifecycleReadings(variable) :
          checkThreshold(variable, value)
    /\ UNCHANGED toCheck

NextAL ==
    \/ CheckReading
    \/ ResolveAlert

\* the alert manager with its two ways of resolving an alert
SpecAL == Init /\ [][NextAL]_vars

\* --------------------------------------------- the history near its limit
\* how many alerts were created and resolved before: enough for the creations
\* that follow to reach the limit of the history in the manager and in the store
PastCreations == (maxHistory - MaxAlerts - 1)..maxHistory

\* the i-th of the alerts created and resolved before, as the manager's history
\* keeps it, or as the store keeps it (with the store's own id, never resolved)
pastAlert(i, stored) ==
    [id |-> <<IF stored THEN "stored" ELSE "past", i>>, key |-> "motor1-temperature",
     value |-> <<96, 0>>, severity |-> "warning", updateCount |-> 1,
     resolved |-> ~stored, resolvedAt |-> IF stored THEN Undefined ELSE 1]

\* the history after n creations on top of base: each one puts its record in
\* front and drops the last record above maxHistory
historyAfter(n, base, stored) ==
    LET every == [i \in 1..n |-> pastAlert(n - i + 1, stored)] \o base
    IN  IF Len(every) > maxHistory THEN SubSeq(every, 1, maxHistory) ELSE every

\* the state after some number of alerts has been created and resolved by readings
InitHist ==
    /\ MonitorInit
    /\ ServiceInit
    /\ connection = [mode |-> "websocket", lastUpdate |-> Null]
    /\ motors = [m \in MotorIds |-> [data |-> "init", isSimulated |-> FALSE]]
    /\ \E n \in PastCreations :
          /\ alertHistory = historyAfter(n, demoAlerts, FALSE)
          /\ alerts = [active |-> [i \in 1..n |-> pastAlert(i, TRUE)],
                       history |-> historyAfter(n, <<>>, TRUE)]
          /\ kpis = [activeAlerts |-> n, data |-> "init"]
    /\ activeAlerts = [k \in AlertKeys |-> NoAlert]
    /\ lastCheckedValues = [k \in AlertKeys |-> Undefined]
    /\ nextId = 1
    /\ prev = [key |-> "none", value |-> Undefined]
    /\ scenarioStep = 0
    /\ request = NoAlert.id
    /\ call = NoCall
    /\ toCheck = <<>>
    /\ urlOk = TRUE
    /\ last = "init"
    /\ sinceStart = Null

NextHist ==
    \/ CheckReading

\* the alert manager with a long history, called with any sequence of readings
SpecHist == InitHist /\ [][NextHist]_vars

\* ------------------------------------------------ StateStore.updateMotor
\* constructor: a motor of the initial state (no lastUpdate; no isSimulated,
\* which reads as false)
motorInit ==
    [temperature |-> 0, oil_pressure |-> 0, clutch_pressure |-> 0, status |-> "normal",
     lastUpdate |-> Undefined, isSimulated |-> FALSE]

\* the updateMotor() calls of the program: handleTelemetryLatest() (one field),
\* handleMotorStatus() (status, for any motor id the message names),
\* processPollingData() (the fields of the payload, lastUpdate and status) and
\* useSimulatedData() (all fields and isSimulated)
MotorUpdates ==
    { [motorId |-> "motor1", data |-> [temperature |-> t]] : t \in {700, 1060} }
    \cup { [motorId |-> m, data |-> [status |-> "warning"]] : m \in MotorIds \cup {"motor9"} }
    \cup { [motorId |-> "motor2",
            data |-> [oil_pressure |-> 400, lastUpdate |-> 0, status |-> "normal"]] }
    \cup { [motorId |-> "motor2",
            data |-> [temperature |-> 900, oil_pressure |-> 400, clutch_pressure |-> 1200,
                      status |-> "normal", lastUpdate |-> 0, isSimulated |-> TRUE]] }

\* the motors as the callback that runs finds them
agedMotors(ms) == [m \in DOMAIN ms |-> [ms[m] EXCEPT !.lastUpdate = aged(@)]]

\* checkMotorAlerts(motorsData): the checkThreshold() calls it makes, in order
checkMotorAlerts(ms) ==
    LET reading(m) == [variable |-> variableOf(m), value |-> ms[m][variableOf(m).key]]
    IN  SelectSeq(<<reading("motor1"), reading("motor2")>>,
                  LAMBDA r : r.value # Undefined)

\* updateMotor(motorId, data) up to the first call of checkThreshold() by the
\* subscriber of 'motors'
UpdateMotor ==
    /\ toCheck = <<>>
    /\ \E update \in MotorUpdates :
          /\ call' = update
          /\ motors' = updateMotor(agedMotors(motors), update.motorId, update.data)
          /\ IF update.motorId \in DOMAIN motors
             THEN /\ toCheck' = checkMotorAlerts(motors')
                  /\ eff' = {"motors"}
             ELSE /\ toCheck' = <<>>
                  /\ eff' = {}
    /\ last' = "updateMotor"
    /\ UNCHANGED <<monVars, connection, kpis, socket, orphans, currentRetries,
                   isManualClose, timers, urlOk, delays, retryPhase, staleTimers,
                   sinceStart, activeAlerts, alertHistory, lastCheckedValues, nextId,
                   alerts, prev, scenarioStep, request>>

\* the notification of updateMotor() goes on: the next checkThreshold() call of
\* checkMotorAlerts()
NotifySubscriber ==
    /\ toCheck # <<>>
    /\ checkThreshold(Head(toCheck).variable, Head(toCheck).value)
    /\ toCheck' = Tail(toCheck)

InitStore ==
    /\ MonitorInit
    /\ ServiceInit
    /\ AlertInit
    /\ connection = [mode |-> "websocket", lastUpdate |-> Null]
    /\ motors = [m \in MotorIds |-> motorInit]
    /\ kpis = [activeAlerts |-> 0, data |-> "init"]
    /\ alerts = [active |-> <<>>, history |-> <<>>]
    /\ urlOk = TRUE
    /\ last = "init"
    /\ sinceStart = Null

NextStore ==
    \/ UpdateMotor
    \/ NotifySubscriber

\* the store with the alert manager subscribed to its motors
SpecStore == InitStore /\ [][NextStore]_vars

\* ------------------------- the monitor and the service on one connection
\* connect() as the hosting page calls it: once, before any socket exists (the
\* only other call of connect() is the one of the reconnect timer)
ConnectAtStartup ==
    /\ socket = "null"
    /\ timers = 0
    /\ Connect

NextDeg ==
    \/ Start
    \/ ConnectAtStartup
    \/ SocketOpens
    \/ SocketMessage
    \/ SocketCloses
    \/ ReconnectFires
    \/ CheckConnectionHealth
    \/ RecoveryFires

\* the supervision of the push connection: the service with the monitor that
\* listens to its events; the polling cycles of the monitor are those of Spec
SpecDeg == Init /\ [][NextDeg]_vars

\* the timers keep firing: the health interval of startConnectionMonitor(), the
\* timeouts of scheduleReconnect() and of scheduleRecoveryAttempt()
SpecDegFair ==
    /\ SpecDeg
    /\ WF_vars(CheckConnectionHealth)
    /\ WF_vars(ReconnectFires)
    /\ WF_vars(RecoveryFires)

\* ---------------------------------------------------------------- claims
\* callbacks in which a polling cycle ends in its catch block
FailLabels == {"pollFail", "tickNoToken"}

\* polling cycles in flight: started and not yet through their finally block
inFlight == fetching + parsing

\* C1: single-flight polling: in every reachable state at most one polling
\* cycle is in flight, whatever the interleaving of ticks, connection events,
\* the liveness check and the recovery timer.
C1_SingleFlight == inFlight <= 1

\* C2 (as claimed): handling websocket:disconnected sets the mode to polling
\* and starts a polling cycle within the handler.
C2_ImmediateCycle ==
    [][last' = "disconnected" =>
          /\ mode' = "polling"
          /\ \/ inFlight' = inFlight + 1
             \/ errors' = errors + 1]_vars

\* C2 (amended): handling websocket:disconnected sets the mode to polling in the
\* monitor and in the store and clears the in-flight flag, so that the next tick
\* of the polling timer starts a cycle; the handler itself starts no cycle.
C2_DisconnectedArmsPolling ==
    [][last' = "disconnected" =>
          /\ mode' = "polling"
          /\ connection'.mode = "polling"
          /\ ~isPollingActive'
          /\ inFlight' = inFlight
          /\ errors' = errors
          /\ pollingRetries' = pollingRetries]_vars

C2_Witness == last = "disconnected" /\ mode = "polling" /\ inFlight = 1

\* C3: a failed polling cycle adds one to the consecutive-failure counter
\* (pollingRetries, and connectionState.errors with it), a successful one resets
\* it to 0; a failed cycle enters offline mode exactly when the counter has
\* reached maxPollingRetries, and the counter grows by failed cycles only, so
\* never after fewer than 3 failures since the last success.
C3_Escalation ==
    [][/\ last' \in FailLabels =>
            /\ pollingRetries' = pollingRetries + 1
            /\ errors' = errors + 1
            /\ IF pollingRetries' >= maxPollingRetries
               THEN mode' = "offline" /\ Len(recovery') = Len(recovery) + 1
               ELSE mode' = mode /\ recovery' = recovery
       /\ last' = "pollOk" =>
            /\ pollingRetries' = 0
            /\ errors' = 0
            /\ mode' = mode
       /\ pollingRetries' > pollingRetries => last' \in FailLabels]_vars

C3_Witness ==
    last = "pollFail" /\ mode = "offline" /\ pollingRetries = maxPollingRetries

\* an entry into offline mode was the last callback
enteredOffline ==
    \/ last = "maxRetries"
    \/ last \in FailLabels /\ pollingRetries >= maxPollingRetries

\* C4: every entry into offline mode leaves simulated readings for both motors
\* and a recovery attempt RecoveryDelay seconds ahead, and at no time is more
\* than one recovery attempt pending.
C4_OneRecoveryPending ==
    /\ enteredOffline =>
          /\ \A m \in MotorIds : motors[m].isSimulated /\ motors[m].data = "sim"
          /\ recovery # <<>>
          /\ recovery[Len(recovery)] = RecoveryDelay
    /\ Len(recovery) <= 1

\* C5 (as claimed): when the recovery timer fires in offline mode, the mode
\* becomes polling and connectionState.errors is reset to 0.
C5_RecoveryResetsErrors ==
    [][last' = "recovery" => mode' = "polling" /\ errors' = 0]_vars

\* the mode a callback leaves, by the mode it found and the event
ModeAfter(m, ev, exhausted) ==
    CASE ev = "start" -> "websocket"
      [] ev = "stop" -> "none"
      [] ev = "connected" -> "websocket"
      [] ev = "disconnected" -> "polling"
      [] ev = "maxRetries" -> "offline"
      [] ev = "healthForced" -> "polling"
      [] ev = "recovery" -> "polling"
      [] ev \in FailLabels -> IF exhausted THEN "offline" ELSE m
      [] OTHER -> m

\* C5 (amended): when the recovery timer fires in offline mode, the mode becomes
\* polling and pollingRetries is reset to 0, while connectionState.errors keeps
\* its value; a timer that fires in another mode changes nothing; the mode is
\* always one of none, websocket, polling, offline, and the mode a callback
\* leaves is fixed by the mode it found and the event.
C5_RecoveryTransition ==
    [][/\ mode' \in Modes
       /\ mode' = ModeAfter(mode, last', pollingRetries' >= maxPollingRetries)
       /\ last' = "recovery" =>
            /\ mode = "offline"
            /\ pollingRetries' = 0
            /\ errors' = errors
       /\ Len(recovery') < Len(recovery) /\ mode # "offline" =>
            /\ mode' = mode
            /\ pollingRetries' = pollingRetries]_vars

C5_Witness ==
    last = "recovery" /\ mode = "polling" /\ errors = maxPollingRetries /\ pollingRetries = 0

\* C6: handling websocket:connected sets the mode to websocket and the error
\* counter to 0 and cancels polling: while the mode stays websocket no polling
\* cycle starts, and no cycle that was in flight moves the mode of the monitor
\* or of the store to polling or offline.
C6_ConnectedCancelsPolling ==
    [][/\ last' = "connected" =>
            /\ mode' = "websocket"
            /\ connection'.mode = "websocket"
            /\ errors' = 0
       /\ mode = "websocket" => last' \notin {"tickStart", "tickNoToken"}
       /\ mode = "websocket" /\ last' \in {"pollOk", "pollFail"} =>
            /\ mode' = "websocket"
            /\ connection'.mode = connection.mode]_vars

\* C7 (as claimed): the health check never forces polling when an update,
\* start() included, occurred within the last StaleAfter seconds.
C7_NoForceAfterRecentStart ==
    last = "healthForced" =>
        /\ secondsSince(connection.lastUpdate) > StaleAfter
        /\ secondsSince(sinceStart) > StaleAfter

\* C7 (amended): a health check forces the mode from websocket to polling if and
\* only if the mode is websocket and connection.lastUpdate of the store is unset
\* or more than 30 seconds old; in every other case it leaves the mode as it is.
\* start() does not set connection.lastUpdate, so it does not count as an update.
C7_HealthCheck ==
    [][last' \in {"healthForced", "healthOk"} =>
          IF /\ mode = "websocket"
             /\ \/ connection'.lastUpdate = Null
                \/ connection'.lastUpdate * HealthInterval > StaleAfter
          THEN mode' = "polling" /\ last' = "healthForced"
          ELSE mode' = mode /\ last' = "healthOk"]_vars

C7_Witness ==
    /\ last = "healthForced"
    /\ mode = "polling"
    /\ connection.lastUpdate = AgeCap

\* C8: the n-th reconnect scheduled since the last open, n in 1..10, has the
\* delay 3000 * 1.5^(n-1) ms: the first is 3000 and each next one is 1.5 times
\* the one before, so the delays strictly increase; the retry counter counts
\* them and never exceeds 10.
C8_Backoff ==
    /\ currentRetries <= 10
    /\ Len(delays) = currentRetries
    /\ \A n \in 1..Len(delays) :
          IF n = 1
          THEN delays[n] = 3000 * Pow(2, 10)
          ELSE 2 * delays[n] = 3 * delays[n - 1] /\ delays[n] > delays[n - 1]

C8_Witness == currentRetries = 10 /\ Len(delays) = 10 /\ last = "close"

\* C9: once maxRetries reconnects have been scheduled since the last open, a
\* non-manual close emits websocket:maxRetries and schedules no reconnect; after
\* an explicit connect() the wrapper retries with backoff again on a non-manual
\* close.
C9_RetryCap ==
    [][last' = "close" /\ ~isManualClose =>
          IF retryPhase = "rearmed"
          THEN eff' = {"timer"}
          ELSE IF currentRetries >= maxRetries
          THEN eff' = {"maxRetries"} /\ timers' = timers
          ELSE eff' = {"timer"}]_vars

\* C10: from a manual disconnect() until connect() is called, no reconnect is
\* scheduled, no socket is created and websocket:maxRetries is not emitted,
\* neither by a close event nor by a reconnect timer that was pending.
C10_ManualCloseSuppresses ==
    [][/\ last' = "disconnect" => isManualClose' /\ eff' = {}
       /\ isManualClose /\ last' # "connect" =>
            /\ isManualClose'
            /\ eff' \cap {"socket", "timer", "maxRetries"} = {}
            /\ timers' <= timers
            /\ currentRetries' <= currentRetries]_vars

C10_Witness == isManualClose /\ last = "timer" /\ urlOk /\ socket = "null"

\* sockets created by the wrapper that are connecting or open
liveSockets ==
    (IF socket \in {"connecting", "open"} THEN 1 ELSE 0)
        + orphans.connecting + orphans.open

\* C11: disconnect() cancels the pending reconnect timers and detaches the close
\* handling of the socket it closes: neither a timer scheduled before the
\* disconnect() nor the close event of that socket creates a socket or schedules
\* a reconnect, also when connect() has been called again in between.
C11_DisconnectCancels ==
    [][/\ last' = "timer" /\ staleTimers' < staleTimers => eff' = {}
       /\ last' = "close" /\ orphans'.closing < orphans.closing =>
            eff' = {} /\ timers' = timers]_vars

\* C12: the wrapper owns one connection at a time: at most one socket it created
\* is connecting or open.
C12_OneConnection == liveSockets <= 1

\* C13: an inbound message that is not valid JSON, or whose type has no handler,
\* is dropped: motor readings, alerts and KPIs are unchanged, the sockets stay
\* as they are, the retry counter is unchanged, no reconnect is scheduled and no
\* mode changes.
C13_BadMessageDropped ==
    [][last' \in {"msgInvalid", "msgUnknown"} =>
          /\ motors' = motors /\ kpis' = kpis /\ alerts' = alerts
          /\ activeAlerts' = activeAlerts /\ alertHistory' = alertHistory
          /\ socket' = socket /\ orphans' = orphans
          /\ currentRetries' = currentRetries /\ timers' = timers
          /\ mode' = mode /\ connection'.mode = connection.mode
          /\ "forwarded" \notin eff']_vars

C13_Witness ==
    /\ last = "msgUnknown"
    /\ socket = "open"
    /\ motors["motor1"].data = "real"
    /\ kpis.data = "push"

\* the monitored variable of an alert key
variableOfKey(key) == CHOOSE v \in MonitoredVariables : v.alertKey = key

\* the last reading is inside the normal band of its variable
insideBand(reading) ==
    /\ reading.key \in AlertKeys
    /\ reading.value >= variableOfKey(reading.key).normalMin
    /\ reading.value <= variableOfKey(reading.key).normalMax

\* two readings less than 0.02 * normalMax apart
withinBand(key, v1, v2) ==
    100 * (IF v1 < v2 THEN v2 - v1 ELSE v1 - v2) < 2 * variableOfKey(key).normalMax

\* an alert record but for the age of its timestamp
sameAlert(a, b) ==
    IF a = NoAlert \/ b = NoAlert THEN a = b
    ELSE [a EXCEPT !.timestamp = 1] = [b EXCEPT !.timestamp = 1]

\* no alert was created, updated or resolved by the step
alertsUntouched ==
    /\ \A k \in AlertKeys :
          /\ sameAlert(activeAlerts'[k], activeAlerts[k])
          /\ hasAlert(activeAlerts', k) => activeAlerts'[k].timestamp # 0
    /\ Len(alertHistory') = Len(alertHistory)
    /\ \A i \in 1..Len(alertHistory) :
          /\ alertHistory'[i].id = alertHistory[i].id
          /\ alertHistory'[i].resolved = alertHistory[i].resolved
    /\ alerts' = alerts
    /\ kpis' = kpis
    /\ nextId' = nextId

\* C14: for each telemetry_latest message the thresholds of the variables in the
\* payload are evaluated before the readings are forwarded to the store, and the
\* evaluation raises no error whether or not a value breaches a threshold: the
\* handler never ends in the catch block, least of all with readings forwarded.
C14_ThresholdsBeforeForwarding ==
    [][last' = "telemetry_latest" => "threw" \notin eff']_vars

\* C15 (as claimed): a reading less than 0.02 * normalMax away from the reading
\* observed just before it for the same key produces no evaluation, whether or
\* not that earlier reading was itself suppressed; the first reading of a key is
\* always evaluated.
C15_HysteresisOnSuccessive ==
    [][last' = "check" =>
          /\ lastCheckedValues[prev'.key] = Undefined => "evaluated" \in eff'
          /\ prev.key = prev'.key /\ withinBand(prev.key, prev.value, prev'.value) =>
                eff' = {"suppressed"} /\ alertsUntouched]_vars

\* C15 (amended): a reading is suppressed exactly when it is less than
\* 0.02 * normalMax away from the value evaluated last for its key (the readings
\* suppressed since then do not count); a suppressed reading creates, updates
\* and resolves nothing and is not recorded; the first reading of a key, and
\* every reading that is not suppressed, is evaluated and recorded.
C15_HysteresisOnEvaluated ==
    [][last' = "check" =>
          LET key == prev'.key
              value == prev'.value
              recorded == lastCheckedValues[key]
          IN  IF recorded # Undefined /\ withinBand(key, recorded, value)
              THEN /\ eff' = {"suppressed"}
                   /\ alertsUntouched
                   /\ lastCheckedValues' = lastCheckedValues
              ELSE /\ "evaluated" \in eff'
                   /\ lastCheckedValues' = [lastCheckedValues EXCEPT ![key] = value]]_vars

C15_Witness ==
    /\ last = "check"
    /\ eff = {"suppressed"}
    /\ hasAlert(activeAlerts, prev.key)
    /\ lastCheckedValues[prev.key] # prev.value

\* the active alert of the scenario's key
scenarioAlert == activeAlerts["motor1-temperature"]

\* C16 (as claimed): motor1 temperature 70, 106, 107.9, 60 with critical 105 and
\* normalMax 95: no alert after 70; one new critical alert with value 106.0
\* after 106; 107.9 is suppressed and leaves the alert unchanged; 60 resolves it.
C16_ScenarioSuppressed ==
    /\ scenarioStep = 1 => scenarioAlert = NoAlert
    /\ scenarioStep = 2 =>
          /\ scenarioAlert # NoAlert
          /\ scenarioAlert.severity = "critical"
          /\ scenarioAlert.value = <<106, 0>>
          /\ scenarioAlert.updateCount = 1
    /\ scenarioStep = 3 =>
          /\ eff = {"suppressed"}
          /\ scenarioAlert # NoAlert
          /\ scenarioAlert.value = <<106, 0>>
          /\ scenarioAlert.updateCount = 1
          /\ scenarioAlert.timestamp # 0
    /\ scenarioStep = 4 => scenarioAlert = NoAlert

\* C16 (amended): no alert after 70; after 106 one new critical alert with value
\* 106.0 and updateCount 1; 107.9 is exactly 1.9 = 0.02 * 95 away, which is not
\* less than the band, so it is evaluated and refreshes the same alert (value
\* 107.9, updateCount 2, new timestamp, same id); 60 resolves it: no active
\* alert remains and the history record of the alert is marked resolved.
C16_ScenarioEvaluated ==
    /\ scenarioStep = 1 =>
          /\ scenarioAlert = NoAlert
          /\ Len(alertHistory) = Len(demoAlerts)
    /\ scenarioStep = 2 =>
          /\ scenarioAlert # NoAlert
          /\ scenarioAlert.severity = "critical"
          /\ scenarioAlert.value = <<106, 0>>
          /\ scenarioAlert.updateCount = 1
          /\ eff = {"evaluated", "created", "notified"}
    /\ scenarioStep = 3 =>
          /\ eff = {"evaluated", "updated"}
          /\ scenarioAlert # NoAlert
          /\ scenarioAlert.severity = "critical"
          /\ scenarioAlert.value = <<107, 9>>
          /\ scenarioAlert.updateCount = 2
          /\ scenarioAlert.timestamp = 0
          /\ scenarioAlert.id = alertHistory[1].id
          /\ Len(alertHistory) = Len(demoAlerts) + 1
    /\ scenarioStep = 4 =>
          /\ eff = {"evaluated", "resolved"}
          /\ \A k \in AlertKeys : activeAlerts[k] = NoAlert
          /\ alertHistory[1].key = "motor1-temperature"
          /\ alertHistory[1].resolved
          /\ alertHistory[1].resolvedAt = 0
          /\ Len(alertHistory) = Len(demoAlerts) + 1

C16_Witness ==
    /\ scenarioStep = 4
    /\ prev = [key |-> "motor1-temperature", value |-> 600]
    /\ alertHistory[1].resolved

\* C17: for every pair of successive readings of a key that goes from inside
\* [normalMin, normalMax] to outside it, exactly one alert record is created for
\* the key, so that the key has an active alert after the second reading.
C17_CrossingCreatesAlert ==
    [][/\ last' = "check"
       /\ prev.key = prev'.key
       /\ insideBand(prev)
       /\ ~insideBand(prev')
       => /\ hasAlert(activeAlerts', prev'.key)
          /\ "created" \in eff'
          /\ Len(alertHistory') = Len(alertHistory) + 1]_vars

\* the severity of a reading by the rule of the claim, first match first
claimedSeverity(variable, value) ==
    CASE variable.critical # Undefined /\ value >= variable.critical -> "critical"
      [] variable.criticalLow # Undefined /\ value <= variable.criticalLow -> "critical"
      [] value > variable.normalMax -> "warning"
      [] value < variable.normalMin -> "warning"
      [] OTHER -> "normal"

\* C18: the active set holds at most one alert per key (the record under a key
\* is the record of that key, and no two keys share an id); an evaluated breach
\* of a key that has an active alert creates no record and adds nothing to the
\* history, and refreshes value, severity, message and timestamp of that record
\* and adds exactly 1 to its updateCount, keeping its id.
C18_UpsertKeepsOneRecord ==
    [][/\ \A k \in AlertKeys : hasAlert(activeAlerts', k) =>
             /\ activeAlerts'[k].key = k
             /\ \A j \in AlertKeys \ {k} : activeAlerts'[j].id # activeAlerts'[k].id
       /\ /\ last' = "check"
          /\ "evaluated" \in eff'
          /\ hasAlert(activeAlerts, prev'.key)
          /\ claimedSeverity(variableOfKey(prev'.key), prev'.value) # "normal"
          => LET old == activeAlerts[prev'.key]
                 new == activeAlerts'[prev'.key]
             IN  /\ new.id = old.id
                 /\ new.updateCount = old.updateCount + 1
                 /\ new.value = <<prev'.value \div 10, prev'.value % 10>>
                 /\ new.severity = claimedSeverity(variableOfKey(prev'.key), prev'.value)
                 /\ new.message # ""
                 /\ new.timestamp = 0
                 /\ alertHistory' = agedHistory(alertHistory)
                 /\ alerts' = alerts
                 /\ nextId' = nextId
                 /\ \A j \in AlertKeys \ {prev'.key} :
                       sameAlert(activeAlerts'[j], activeAlerts[j])]_vars

C18_Witness ==
    /\ last = "check"
    /\ eff = {"evaluated", "updated"}
    /\ activeAlerts[prev.key].updateCount = 2
    /\ activeAlerts[prev.key].severity = "critical"
    /\ \A k \in AlertKeys : hasAlert(activeAlerts, k)

\* C19: the severity of an evaluated reading is the first match of
\* value >= critical (critical), value <= criticalLow (critical),
\* value > normalMax (warning), value < normalMin (warning), else normal; the
\* key then has an alert of that severity, or none when it is normal.  A value
\* equal to normalMax or normalMin is normal, one equal to critical or
\* criticalLow is critical.  The gauge status follows the same rule.
C19_SeverityRule ==
    [][last' = "check" /\ "evaluated" \in eff' =>
          LET variable == variableOfKey(prev'.key)
              value == prev'.value
              sev == claimedSeverity(variable, value)
          IN  /\ IF sev = "normal"
                 THEN ~hasAlert(activeAlerts', prev'.key)
                 ELSE /\ hasAlert(activeAlerts', prev'.key)
                      /\ activeAlerts'[prev'.key].severity = sev
              /\ updateGaugeStatus(variable, value) = sev
              /\ value \in {variable.normalMax, variable.normalMin} => sev = "normal"
              /\ value \in {variable.critical, variable.criticalLow} => sev = "critical"]_vars

C19_Witness ==
    /\ last = "check"
    /\ "evaluated" \in eff
    /\ prev = [key |-> "motor1-temperature", value |-> 1050]
    /\ activeAlerts["motor1-temperature"] # NoAlert
    /\ activeAlerts["motor1-temperature"].severity = "critical"
    /\ activeAlerts["motor2-oil_pressure"] # NoAlert
    /\ activeAlerts["motor2-oil_pressure"].value = <<20, 0>>

\* C20: whenever a reading of a key with an active alert is inside the normal
\* band, the alert is removed from the active set, so that no key has an active
\* alert while its most recent reading is inside the normal band.
C20_NormalReadingResolves ==
    insideBand(prev) => ~hasAlert(activeAlerts, prev.key)

\* the alert the last 'alerts:resolve' event names is active before the step
requestedActive(id) ==
    \E k \in AlertKeys : hasAlert(activeAlerts, k) /\ activeAlerts[k].id = id

\* C21: resolveAlert with an id no active alert has (an alert resolved before, or
\* an id no alert has) changes neither the active alerts nor the history nor the
\* store and throws nothing; after resolveAlert(id) no active alert has that id,
\* so that resolving the same id again is such a call
C21_ResolveIdempotent ==
    [][last' = "resolve" =>
         /\ ~requestedActive(request') =>
               /\ activeAlerts' = agedActive(activeAlerts)
               /\ alertHistory' = agedHistory(alertHistory)
               /\ alerts' = alerts
               /\ kpis' = kpis
               /\ eff' = {}
         /\ \A k \in AlertKeys : activeAlerts'[k].id # request']_vars

\* the id of an alert resolved before has been given again, while another alert
\* is active
C21_Witness ==
    /\ last = "resolve"
    /\ eff = {}
    /\ \E i \in 1..Len(alertHistory) :
          alertHistory[i].id = request /\ request[1] = "uuid" /\ alertHistory[i].resolved
    /\ \E k \in AlertKeys : hasAlert(activeAlerts, k)

\* thresholds are breached by a reading
breaches(reading) ==
    /\ reading.key \in AlertKeys
    /\ severityOf(variableOfKey(reading.key), reading.value).severity # "normal"

\* the ids of the records of a history
idsOf(history) == {history[i].id : i \in 1..Len(history)}

\* C22: resolveAlert(id) for the id of an active alert removes that alert from the
\* active alerts and marks the history record with that id resolved, whatever the
\* reading recorded for the key; the other alerts and records stay as they are;
\* an evaluated breach of a key without active alert creates an alert whose id no
\* record has had
C22_ManualResolution ==
    [][/\ last' = "resolve" /\ requestedActive(request') =>
            LET key == activeWithId(activeAlerts, request')
            IN  /\ ~hasAlert(activeAlerts', key)
                /\ \A k \in AlertKeys \ {key} :
                      activeAlerts'[k] = agedActive(activeAlerts)[k]
                /\ Len(alertHistory') = Len(alertHistory)
                /\ \A i \in 1..Len(alertHistory) :
                      IF alertHistory[i].id = request'
                      THEN alertHistory'[i] = [alertHistory[i] EXCEPT !.resolved = TRUE,
                                                                      !.resolvedAt = 0]
                      ELSE alertHistory'[i] = agedHistory(alertHistory)[i]
                /\ request' \in idsOf(alertHistory)
                /\ lastCheckedValues' = lastCheckedValues
       /\ last' = "check" /\ "evaluated" \in eff' /\ breaches(prev')
             /\ ~hasAlert(activeAlerts, prev'.key) =>
            /\ hasAlert(activeAlerts', prev'.key)
            /\ activeAlerts'[prev'.key].id \notin idsOf(alertHistory)
            /\ activeAlerts'[prev'.key].id[2] >= nextId]_vars

\* an alert was resolved by its id while the reading recorded for its key breaches
\* a threshold, and the history holds an older record of the same key
C22_Witness ==
    /\ last = "resolve"
    /\ "resolved" \in eff
    /\ \E i, j \in 1..Len(alertHistory) :
          /\ i < j
          /\ alertHistory[i].id = request
          /\ alertHistory[j].key = alertHistory[i].key
          /\ lastCheckedValues[alertHistory[i].key] # Undefined
          /\ breaches([key |-> alertHistory[i].key,
                       value |-> lastCheckedValues[alertHistory[i].key]])

\* the order in which records were made: the demo records, then the alerts
\* created before, then the ones crypto.randomUUID() names
madeAt(id) ==
    CASE id[1] = "demo" -> 0 - id[2]
      [] id[1] \in {"past", "stored"} -> id[2]
      [] OTHER -> maxHistory + 1 + id[2]

\* the id of the record of a non-empty history that was made first
oldestOf(history) ==
    CHOOSE id \in idsOf(history) : \A other \in idsOf(history) : madeAt(id) <= madeAt(other)

\* a creation has put the record with newId in front, and what it has
\* dropped is the oldest record of a full history
keptBounded(before, after, newId) ==
    /\ Len(after) <= maxHistory
    /\ after[1].id = newId
    /\ idsOf(after) = (idsOf(before) \cup {newId})
                          \ (IF Len(before) >= maxHistory THEN {oldestOf(before)} ELSE {})

\* C23: the history of the alert manager and the one of the store hold at most
\* maxHistory records; a creation puts the new record in front and, when the
\* history is full, drops the record made first and no other
C23_HistoryBounded ==
    [][/\ Len(alertHistory') <= maxHistory
       /\ Len(alerts'.history) <= maxHistory
       /\ "created" \in eff' /\ last' = "check" =>
             /\ keptBounded(alertHistory, alertHistory', activeAlerts'[prev'.key].id)
             /\ keptBounded(alerts.history, alerts'.history,
                            alerts'.active[Len(alerts'.active)].id)
       /\ "created" \notin eff' /\ last' = "check" =>
             /\ idsOf(alertHistory') = idsOf(alertHistory)
             /\ idsOf(alerts'.history) = idsOf(alerts.history)]_vars

\* a creation has evicted the oldest record of the manager's full history and
\* the oldest one of the store's
C23_Witness ==
    /\ "created" \in eff
    /\ Len(alertHistory) = maxHistory
    /\ Len(alerts.history) = maxHistory
    /\ demoAlerts[Len(demoAlerts)].id \notin idsOf(alertHistory)
    /\ <<"stored", 1>> \notin idsOf(alerts.history)
    /\ alerts.history[1].id[1] = "uuid"

\* the alert of a key is critical
criticalAlert(active, key) == hasAlert(active, key) /\ active[key].severity = "critical"

\* C24: the callback after which the alert of a key is critical, and before which
\* it was not (no alert, or a warning one), shows the critical notification; a
\* callback shows it only when the alert it has handled is critical
C24_CriticalNotified ==
    [][/\ \A k \in AlertKeys :
             criticalAlert(activeAlerts', k) /\ ~criticalAlert(activeAlerts, k) =>
                 "notified" \in eff'
       /\ "notified" \in eff' /\ last' = "check" =>
             criticalAlert(activeAlerts', prev'.key)]_vars

\* C24 for what the code does: the notification is shown by the callback that
\* creates a critical alert, and by no other
C24_NotifiedOnCreation ==
    [][last' = "check" =>
          ("notified" \in eff' <=>
              /\ "created" \in eff'
              /\ criticalAlert(activeAlerts', prev'.key))]_vars

\* a critical alert has been created and notified
C24_Witness ==
    /\ last = "check"
    /\ "notified" \in eff
    /\ criticalAlert(activeAlerts, prev.key)
    /\ activeAlerts[prev.key].updateCount = 1

\* a warning alert has escalated to critical in an update
C24_Escalated ==
    /\ last = "check"
    /\ "updated" \in eff
    /\ "notified" \notin eff
    /\ criticalAlert(activeAlerts, prev.key)
    /\ \E i \in 1..Len(alertHistory) :
          /\ alertHistory[i].id = activeAlerts[prev.key].id
          /\ alertHistory[i].severity = "warning"

\* the fields of a motor record
MotorFields == DOMAIN motorInit

\* the updateMotor() call of the step has merged its data into its motor: the
\* fields of data and lastUpdate are set, every other field and the other motor
\* are as they were; for an unknown motor nothing is set and nobody is notified
merged ==
    LET before == agedMotors(motors)
    IN  /\ \A m \in MotorIds : \A f \in MotorFields :
              motors'[m][f] =
                  IF m = call'.motorId /\ f = "lastUpdate" THEN 0
                  ELSE IF m = call'.motorId /\ f \in DOMAIN call'.data THEN call'.data[f]
                  ELSE before[m][f]
        /\ DOMAIN motors' = MotorIds
        /\ IF call'.motorId \in MotorIds
           THEN eff' = {"motors"}
           ELSE eff' = {} /\ toCheck' = <<>>

\* C25: updateMotor(motorId, data) sets the fields of data and lastUpdate on that
\* motor and leaves every other field of it and the other motor unchanged; a call
\* for an unknown motor changes nothing and notifies nobody; from the call to the
\* end of its notification the connection, the alerts and the kpis are unchanged
C25_MotorMergeFrame ==
    [][/\ last' = "updateMotor" => merged
       /\ last' = "updateMotor" \/ toCheck # <<>> =>
             connection' = connection /\ alerts' = alerts /\ kpis' = kpis
       /\ toCheck # <<>> => motors' = motors]_vars

\* C25 without the alerts and the kpis: the merge itself touches neither, and the
\* notification changes them only where the subscribed alert manager creates an
\* alert for a reading of the merged motors
C25_MotorMerge ==
    [][/\ last' = "updateMotor" =>
             merged /\ connection' = connection /\ alerts' = alerts /\ kpis' = kpis
       /\ toCheck # <<>> =>
             /\ motors' = motors
             /\ connection' = connection
             /\ alerts' # alerts \/ kpis' # kpis => "created" \in eff']_vars

\* a status has been merged into a motor that held simulated readings: the
\* readings and isSimulated are kept, lastUpdate is new
C25_Witness ==
    /\ last = "updateMotor"
    /\ call = [motorId |-> "motor2", data |-> [status |-> "warning"]]
    /\ motors["motor2"] = [temperature |-> 900, oil_pressure |-> 400,
                           clutch_pressure |-> 1200, status |-> "warning",
                           lastUpdate |-> 0, isSimulated |-> TRUE]
    /\ motors["motor1"].lastUpdate = 1

\* the keys that have an active alert in the alert manager
activeKeys == {k \in AlertKeys : hasAlert(activeAlerts, k)}

\* C27: the active list of the store holds one record for each alert active in
\* the alert manager (the record of the same key) and no other, and
\* kpis.activeAlerts is the number of alerts active in the alert manager
C27_StoreMatchesManager ==
    /\ Len(alerts.active) = Cardinality(activeKeys)
    /\ {alerts.active[i].key : i \in 1..Len(alerts.active)} = activeKeys
    /\ kpis.activeAlerts = Cardinality(activeKeys)

\* an alert has been resolved in the alert manager, by a reading or by its id, and
\* the store still lists it as active and counts it
C27_StaleInStore ==
    /\ "resolved" \in eff
    /\ activeKeys = {}
    /\ Len(alerts.active) > 0
    /\ kpis.activeAlerts = Len(alerts.active)
    /\ \A i \in 1..Len(alerts.active) : ~alerts.active[i].resolved

\* C28: while the monitor is started, the mode the store publishes is the mode of
\* the monitor
C28_PublishedMode == life = "started" => connection.mode = mode

\* the recovery timer has put the monitor back to polling and the store still
\* says offline
C28_AfterRecovery ==
    /\ life = "started"
    /\ last = "recovery"
    /\ mode = "polling"
    /\ connection.mode = "offline"

\* a polling cycle has completed after the push connection came back: the
\* monitor is in websocket mode and the store says polling
C28_AfterLateCycle ==
    /\ life = "started"
    /\ last = "pollOk"
    /\ mode = "websocket"
    /\ connection.mode = "polling"

\* C30: a motor whose isSimulated flag is true holds simulated values
C30_SimulatedOnly == \A m \in MotorIds : motors[m].isSimulated => motors[m].data = "sim"

\* a successful polling cycle has merged real values into a motor that held
\* simulated ones, and the flag of that motor is still true
C30_FlagKept ==
    /\ last = "pollOk"
    /\ mode = "polling"
    /\ \E m \in MotorIds : motors[m].data = "real" /\ motors[m].isSimulated

\* the push connection has just closed, not by disconnect(), under a monitor in
\* websocket mode
closedInWebsocketMode ==
    /\ last = "close"
    /\ ~isManualClose
    /\ socket = "closed"
    /\ mode = "websocket"

\* C26: after a close of the push connection that disconnect() has not asked for,
\* with the monitor in websocket mode, the monitor leaves websocket mode (for
\* polling or offline) or the connection is open again
C26_Degrades == closedInWebsocketMode ~> (mode # "websocket" \/ socket = "open")

\* the health check has forced polling while the service was still retrying
C26_Witness ==
    /\ last = "healthForced"
    /\ mode = "polling"
    /\ connection.mode = "polling"
    /\ socket = "closed"
    /\ currentRetries > 0
    /\ timers > 0

\* C29: a message of a known type refreshes connection.lastUpdate, whatever it
\* carries, and the health check that follows such a message does not force
\* polling
C29_PushRefreshes ==
    [][/\ last' \in KnownTypes => connection'.lastUpdate = 0
       /\ last \in KnownTypes => last' # "healthForced"]_vars

\* a system_alert message has arrived on the open connection of a started
\* monitor in websocket mode and lastUpdate is still StaleAfter seconds old: the
\* next health check forces polling
C29_NotRefreshed ==
    /\ last = "system_alert"
    /\ "threw" \in eff
    /\ socket = "open"
    /\ life = "started"
    /\ mode = "websocket"
    /\ secondsSince(connection.lastUpdate) = StaleAfter
====
